---------------------------- MODULE Spec2Model ----------------------------
(***************************************************************************)
(* Model of copy-background-image-url: the URL extraction helper, the      *)
(* per-element image resolution and the multi-strategy search              *)
(* findBackgroundImageAtCoordinates ("locate") in its three variants.      *)
(*                                                                         *)
(* Strings are sequences of one-character strings, so that the regular     *)
(* expression of extractBackgroundImageUrl is computed, not assumed.       *)
(***************************************************************************)
EXTENDS Integers, Sequences, FiniteSets, TLC

VARIABLES
    exIn,           \* extractBackgroundImageUrl: the argument under test
    exOut,          \* extractBackgroundImageUrl: its result, Pending before the call
    elIn,           \* getElementImageUrl: the element under test
    elOut,          \* getElementImageUrl: its result, Pending before the call
    doc,            \* the rendered document: per element tag, src, style, geometry, parent
    pointerEvents,  \* element.style.pointerEvents of every element (inline value)
    variant,        \* which findBackgroundImageAtCoordinates of the repository runs
    query,          \* the query point (x, y)
    pc,             \* position of the running call: the strategy about to run
    elements,       \* the candidate stack of the running call
    debugInfo,      \* the diagnostic record of the running call
    ran,            \* the strategies the running call has started, in order
    console,        \* console.error of the running call: the elements whose style fault was logged
    returned,       \* what the completed calls returned, oldest first
    callsLeft,      \* how many more calls of locate (right-clicks of the user) are to come
    peBefore,       \* the inline pointer-events values when the running call started
    lastRightClickCoordinates,  \* content script: the coordinates of the last contextmenu event
    clipboardApi,   \* content script: navigator.clipboard && navigator.clipboard.writeText
    menuShown,      \* the browser shows the context menu of the page
    tabMessages,    \* 'getBackgroundImageUrl' messages on their way to the content script
    deliveries,     \* per resolved URL: the state of the primary write and of the fallback
    clipboard,      \* the text on the clipboard, Null before any write
    clicks,         \* the contextmenu events the document has seen, oldest first
    handled,        \* per handled 'getBackgroundImageUrl' message: what the listener did
    calls,          \* the invocations of locate that run interleaved
    overlapped      \* a step of one invocation was taken while the other was running

exVars == <<exIn, exOut>>
elVars == <<elIn, elOut>>
locVars == <<doc, pointerEvents, variant, query, pc, elements, debugInfo, ran,
             console, returned, callsLeft, peBefore>>
dlVars == <<lastRightClickCoordinates, clipboardApi, menuShown, tabMessages,
            deliveries, clipboard, clicks, handled>>
ilVars == <<calls, overlapped>>
vars == <<exIn, exOut, elIn, elOut, doc, pointerEvents, variant, query, pc,
          elements, debugInfo, ran, console, returned, callsLeft, peBefore,
          lastRightClickCoordinates, clipboardApi, menuShown, tabMessages,
          deliveries, clipboard, clicks, handled, calls, overlapped>>

(***************************************************************************)
(* Bounds                                                                  *)
(***************************************************************************)
MaxLen == 3     \* longest X wrapped into url(X), url('X'), url("X")

(***************************************************************************)
(* Strings                                                                 *)
(***************************************************************************)
Null == <<"NULL">>          \* JavaScript null (no string of the model is this)
Pending == <<"PENDING">>    \* a call that has not returned yet

SQ == "'"
DQ == "\""
NL == "\n"

NoneStr == <<"n", "o", "n", "e">>
UrlOpen == <<"u", "r", "l", "(">>

\* the values url(X), url('X') and url("X")
UrlBare(X) == UrlOpen \o X \o <<")">>
UrlSingle(X) == UrlOpen \o <<SQ>> \o X \o <<SQ, ")">>
UrlDouble(X) == UrlOpen \o <<DQ>> \o X \o <<DQ, ")">>

Min(S) == CHOOSE m \in S : \A n \in S : m <= n

\* ['"]
IsQuote(c) == c \in {SQ, DQ}

\* . of a regular expression without the s flag: any character but a line terminator
IsDot(c) == c # NL

\* the literal url\( at position i
StartsUrl(s, i) ==
    /\ i + 3 <= Len(s)
    /\ SubSeq(s, i, i + 3) = UrlOpen

\* ['"]?\) at position j: the quote is optional and greedy, the ) is required
CloseAt(s, j) ==
    \/ j <= Len(s) /\ s[j] = ")"
    \/ j + 1 <= Len(s) /\ IsQuote(s[j]) /\ s[j + 1] = ")"

\* (.*?)['"]?\) from position q: the positions where the lazy group may end
LazyEnds(s, q) ==
    { j \in q..Len(s) : (\A k \in q..(j - 1) : IsDot(s[k])) /\ CloseAt(s, j) }

\* the match attempt at start i: the opening quote is tried first (greedy ?),
\* then the attempt without it (backtracking)
MatchFrom(s, i) ==
    LET p == i + 4
    IN  IF p <= Len(s) /\ IsQuote(s[p]) /\ LazyEnds(s, p + 1) # {}
        THEN [found |-> TRUE, group |-> SubSeq(s, p + 1, Min(LazyEnds(s, p + 1)) - 1)]
        ELSE IF LazyEnds(s, p) # {}
        THEN [found |-> TRUE, group |-> SubSeq(s, p, Min(LazyEnds(s, p)) - 1)]
        ELSE [found |-> FALSE, group |-> <<>>]

\* backgroundImageValue.match(/url\(['"]?(.*?)['"]?\)/): the leftmost match
UrlMatch(s) ==
    LET starts == { i \in 1..Len(s) : StartsUrl(s, i) /\ MatchFrom(s, i).found }
    IN  IF starts = {} THEN [found |-> FALSE, group |-> <<>>]
        ELSE MatchFrom(s, Min(starts))

extractBackgroundImageUrl(backgroundImageValue) ==
    IF backgroundImageValue = <<>> \/ backgroundImageValue = NoneStr
    THEN Null
    ELSE LET urlMatch == UrlMatch(backgroundImageValue)
         IN  IF urlMatch.found /\ urlMatch.group # <<>>
             THEN urlMatch.group
             ELSE Null

(***************************************************************************)
(* The rendered document (the Render Tree Accessor)                        *)
(*                                                                         *)
(* Elements are numbered in document order: 1 is the root (html), 2 is     *)
(* body, the others are content elements. doc holds, per element, tagName, *)
(* className, src, the resolved backgroundImage and zIndex, the bounding   *)
(* rectangle and the parent (0: none), and the faults of the accessor.     *)
(***************************************************************************)
MaxElems == 2   \* content elements besides html and body

Root == 1
Body == 2
NumElems == Body + MaxElems
Elems == 1..NumElems
Content == (Body + 1)..NumElems

ViewportSize == 100     \* the viewport is [0, 100] x [0, 100]

\* the thrown value of an accessor fault: an Error with a message, or a value
\* that is not an Error
ErrorValue == [isError |-> TRUE, message |-> "Mock error for testing"]
NonErrorValue == [isError |-> FALSE, message |-> "not an Error"]

\* the zIndex values: "auto" or an integer
ZAuto == [auto |-> TRUE, n |-> 0]
ZNum(k) == [auto |-> FALSE, n |-> k]

El(e) ==
    [id |-> e,
     tagName |-> doc.tagName[e],
     className |-> doc.className[e],
     src |-> doc.src[e],
     backgroundImage |-> doc.backgroundImage[e],
     zIndex |-> doc.zIndex[e],
     styleThrows |-> doc.fault.kind = "style" /\ e \in doc.fault.who]

\* window.getComputedStyle(element)
getComputedStyle(element) ==
    IF element.styleThrows
    THEN [throws |-> TRUE, backgroundImage |-> <<>>, zIndex |-> ZAuto]
    ELSE [throws |-> FALSE, backgroundImage |-> element.backgroundImage,
          zIndex |-> element.zIndex]

\* parseInt(style.zIndex) || 0: "auto" parses to NaN, which is falsy
ParseZIndex(zIndex) == IF zIndex.auto THEN 0 ELSE zIndex.n

Contains(rect, x, y) ==
    x >= rect.left /\ x <= rect.right /\ y >= rect.top /\ y <= rect.bottom

InViewport(x, y) ==
    x >= 0 /\ x <= ViewportSize /\ y >= 0 /\ y <= ViewportSize

\* the computed pointer-events value: the inline value, else inherited
RECURSIVE ComputedPointerEvents(_, _)
ComputedPointerEvents(pe, e) ==
    IF pe[e] # "" THEN pe[e]
    ELSE IF doc.parent[e] = 0 THEN "auto"
    ELSE ComputedPointerEvents(pe, doc.parent[e])

\* a is painted above b: the higher z-index, then the later in document order
Above(a, b) ==
    LET za == ParseZIndex(doc.zIndex[a])
        zb == ParseZIndex(doc.zIndex[b])
    IN  za > zb \/ (za = zb /\ a > b)

\* the elements of S, topmost first
RECURSIVE TopFirst(_)
TopFirst(S) ==
    IF S = {} THEN <<>>
    ELSE LET top == CHOOSE a \in S : \A b \in S \ {a} : Above(a, b)
         IN  <<top>> \o TopFirst(S \ {top})

\* document.elementsFromPoint(x, y) under the inline pointer-events values pe:
\* the hit elements topmost first; the root element is appended when it is not
\* the last one; nothing outside the viewport. A document whose hit-test is
\* given (doc.stubbed) answers with doc.stack, whatever the point.
elementsFromPoint(pe, x, y) ==
    IF doc.stubbed THEN doc.stack
    ELSE IF ~InViewport(x, y) THEN <<>>
    ELSE LET hit == { e \in Elems \ {Root} :
                        /\ Contains(doc.rect[e], x, y)
                        /\ ComputedPointerEvents(pe, e) # "none" }
         IN  TopFirst(hit) \o <<Root>>

\* document.elementFromPoint(x, y): the topmost one, 0 for null
elementFromPoint(pe, x, y) ==
    LET all == elementsFromPoint(pe, x, y)
    IN  IF all = <<>> THEN 0 ELSE Head(all)

\* element.querySelectorAll('*'): the descendants in document order
RECURSIVE IsAncestor(_, _)
IsAncestor(a, e) ==
    /\ doc.parent[e] # 0
    /\ (doc.parent[e] = a \/ IsAncestor(a, doc.parent[e]))

RECURSIVE Ascending(_)
Ascending(S) ==
    IF S = {} THEN <<>>
    ELSE LET m == Min(S) IN <<m>> \o Ascending(S \ {m})

Descendants(a) == Ascending({ e \in Elems : IsAncestor(a, e) })

\* document.querySelectorAll('*')
AllElements == Ascending(Elems)

(***************************************************************************)
(* Per-element image resolution                                            *)
(*                                                                         *)
(* Both return [url, logged]: the URL or Null, and whether the guard       *)
(* caught a style fault and wrote it to console.error.                     *)
(***************************************************************************)
getElementBackgroundImage(element) ==
    LET style == getComputedStyle(element)
    IN  IF style.throws
        THEN [url |-> Null, logged |-> TRUE]
        ELSE [url |-> extractBackgroundImageUrl(style.backgroundImage),
              logged |-> FALSE]

\* mutant: the background image is preferred over the src of an IMG
getElementImageUrl_BackgroundFirst(element) ==
    LET bg == getElementBackgroundImage(element)
    IN  IF bg.url # Null THEN bg
        ELSE IF element.tagName = "IMG" /\ element.src # <<>>
        THEN [url |-> element.src, logged |-> bg.logged]
        ELSE [url |-> Null, logged |-> bg.logged]

getElementImageUrl(element) ==
    IF element.tagName = "IMG" /\ element.src # <<>>
    THEN [url |-> element.src, logged |-> FALSE]
    ELSE LET bg == getElementBackgroundImage(element)
         IN  IF bg.url # Null THEN bg ELSE [url |-> Null, logged |-> bg.logged]

(***************************************************************************)
(* The strategies of findBackgroundImageAtCoordinates                      *)
(*                                                                         *)
(* A strategy yields an outcome [kind, url, log, checked, pe, value]:      *)
(* kind is "hit" (url found), "miss" (fall through to the next strategy)   *)
(* or "throw" (value was thrown to the outer try); log lists the elements  *)
(* whose style fault was logged, checked is debugInfo.elementsChecked and  *)
(* pe the inline pointer-events values the strategy leaves behind.         *)
(***************************************************************************)
Variants == {"background-only", "non-mutating", "pointer-events"}

StyleThrows(e) == doc.fault.kind = "style" /\ e \in doc.fault.who
RectThrows(e) == doc.fault.kind = "rect" /\ e \in doc.fault.who
InlineStyleThrows(e) == doc.fault.kind = "inline" /\ e \in doc.fault.who
ProbeThrows == doc.fault.kind = "probe"
HitTestThrows == doc.fault.kind = "hit"

Outcome(kind, url, log, checked, pe) ==
    [kind |-> kind, url |-> url, log |-> log, checked |-> checked, pe |-> pe,
     value |-> doc.fault.value]

\* the per-element resolution a variant uses: the first detector resolves
\* background images only
Resolve(e) ==
    IF variant = "background-only"
    THEN getElementBackgroundImage(El(e))
    ELSE getElementImageUrl(El(e))

\* for (const element of seq) { url = resolve(element); if (url) return ... }
RECURSIVE FirstImage(_, _, _, _, _)
FirstImage(seq, i, log, checked, pe) ==
    IF i > Len(seq) THEN Outcome("miss", Null, log, checked, pe)
    ELSE LET r == Resolve(seq[i])
             log2 == IF r.logged THEN Append(log, seq[i]) ELSE log
         IN  IF r.url # Null
             THEN Outcome("hit", r.url, log2, checked, pe)
             ELSE FirstImage(seq, i + 1, log2, checked, pe)

\* mutant: an element is recorded in the diagnostic list only after it was
\* found to carry no image
RECURSIVE DirectCheckLoop_RecordAfterTest(_, _, _, _, _)
DirectCheckLoop_RecordAfterTest(els, i, log, checked, pe) ==
    IF i > Len(els) THEN Outcome("miss", Null, log, checked, pe)
    ELSE LET element == El(els[i])
             style == getComputedStyle(element)
         IN  IF style.throws
             THEN Outcome("throw", Null, log, checked, pe)
             ELSE LET r == Resolve(els[i])
                      log2 == IF r.logged THEN Append(log, els[i]) ELSE log
                  IN  IF r.url # Null
                      THEN Outcome("hit", r.url, log2, checked, pe)
                      ELSE DirectCheckLoop_RecordAfterTest(els, i + 1, log2,
                               Append(checked,
                                    [tagName |-> element.tagName,
                                     className |-> element.className,
                                     backgroundImage |-> style.backgroundImage,
                                     zIndex |-> style.zIndex]), pe)

\* Strategy 1: the candidate stack in hit-test order; the style of each element
\* is read for the diagnostic list outside any per-element guard
RECURSIVE DirectCheckLoop(_, _, _, _, _)
DirectCheckLoop(els, i, log, checked, pe) ==
    IF i > Len(els) THEN Outcome("miss", Null, log, checked, pe)
    ELSE LET element == El(els[i])
             style == getComputedStyle(element)
         IN  IF style.throws
             THEN Outcome("throw", Null, log, checked, pe)
             ELSE LET r == Resolve(els[i])
                      log2 == IF r.logged THEN Append(log, els[i]) ELSE log
                      checked2 == Append(checked,
                                    [tagName |-> element.tagName,
                                     className |-> element.className,
                                     backgroundImage |-> style.backgroundImage,
                                     zIndex |-> style.zIndex])
                  IN  IF r.url # Null
                      THEN Outcome("hit", r.url, log2, checked2, pe)
                      ELSE DirectCheckLoop(els, i + 1, log2, checked2, pe)

\* mutant: the direct check inspects no element
DirectCheck_Skipped(els, checked, pe) == Outcome("miss", Null, <<>>, checked, pe)

\* mutant: the direct check looks at the topmost element only
DirectCheck_TopmostOnly(els, checked, pe) ==
    DirectCheckLoop(SubSeq(els, 1, 1), 1, <<>>, checked, pe)

DirectCheck(els, checked, pe) == DirectCheckLoop(els, 1, <<>>, checked, pe)

\* mutant: the inline value is cleared instead of set back to the saved one
RECURSIVE RestoreStyles_Clear(_, _)
RestoreStyles_Clear(originalStyles, pe) ==
    IF originalStyles = <<>> THEN pe
    ELSE RestoreStyles_Clear(Tail(originalStyles),
                             [pe EXCEPT ![Head(originalStyles).element] = ""])

\* originalStyles.forEach(({element, pointerEvents}) => element.style.pointerEvents = pointerEvents)
RECURSIVE RestoreStyles(_, _)
RestoreStyles(originalStyles, pe) ==
    IF originalStyles = <<>> THEN pe
    ELSE LET o == Head(originalStyles)
         IN  RestoreStyles(Tail(originalStyles),
                           [pe EXCEPT ![o.element] = o.pointerEvents])

\* Strategy 2 (mutating): the body of the try block. Every element but the last
\* is hidden from hit-testing in turn and the element behind it is resolved.
\* Yields the outcome and the saved styles; pe is the state when the block is left.
RECURSIVE HideLoop(_, _, _, _, _, _, _)
HideLoop(els, i, x, y, log, pe, originalStyles) ==
    IF i > Len(els) - 1
    THEN [out |-> Outcome("miss", Null, log, <<>>, pe), saved |-> originalStyles]
    ELSE IF InlineStyleThrows(els[i])
    THEN [out |-> Outcome("throw", Null, log, <<>>, pe), saved |-> originalStyles]
    ELSE LET saved2 == Append(originalStyles,
                              [element |-> els[i], pointerEvents |-> pe[els[i]]])
             pe2 == [pe EXCEPT ![els[i]] = "none"]
         IN  IF ProbeThrows
             THEN [out |-> Outcome("throw", Null, log, <<>>, pe2), saved |-> saved2]
             ELSE LET elementBehind == elementFromPoint(pe2, x, y)
                      r == IF elementBehind # 0 THEN Resolve(elementBehind)
                           ELSE [url |-> Null, logged |-> FALSE]
                      log2 == IF r.logged THEN Append(log, elementBehind) ELSE log
                  IN  IF r.url # Null
                      THEN [out |-> Outcome("hit", r.url, log2, <<>>,
                                            RestoreStyles(saved2, pe2)),
                            saved |-> saved2]
                      ELSE HideLoop(els, i + 1, x, y, log2, pe2, saved2)

\* mutant: no finally block, the styles are restored on the success path only
PointerEventsManipulation_NoFinally(els, x, y, checked, pe) ==
    [HideLoop(els, 1, x, y, <<>>, pe, <<>>).out EXCEPT !.checked = checked]

\* Strategy 2 (mutating): try { ... } finally { restore }
PointerEventsManipulation(els, x, y, checked, pe) ==
    LET r == HideLoop(els, 1, x, y, <<>>, pe, <<>>)
    IN  [r.out EXCEPT !.pe = RestoreStyles(r.saved, r.out.pe),
                      !.checked = checked]

\* [...elements].sort((a, b) => aZ - bZ): ascending z-index, stable
RECURSIVE SortByZIndex(_)
SortByZIndex(seq) ==
    IF seq = <<>> THEN <<>>
    ELSE LET key(i) == ParseZIndex(doc.zIndex[seq[i]])
             first == Min({ i \in 1..Len(seq) :
                              \A j \in 1..Len(seq) : key(i) <= key(j) })
             rest == [k \in 1..(Len(seq) - 1) |->
                        IF k < first THEN seq[k] ELSE seq[k + 1]]
         IN  <<seq[first]>> \o SortByZIndex(rest)

\* Strategy 3 of the mutating variants: the stack by ascending z-index. The
\* comparator reads the style of the elements outside any guard.
ZIndexSorting(els, checked, pe) ==
    IF Len(els) > 1 /\ \E i \in 1..Len(els) : StyleThrows(els[i])
    THEN Outcome("throw", Null, <<>>, checked, pe)
    ELSE FirstImage(SortByZIndex(els), 1, <<>>, checked, pe)

\* the elements of seq whose bounding rectangle holds the query point
RECURSIVE WithinBounds(_, _, _)
WithinBounds(seq, x, y) ==
    IF seq = <<>> THEN <<>>
    ELSE (IF Contains(doc.rect[Head(seq)], x, y) THEN <<Head(seq)>> ELSE <<>>)
         \o WithinBounds(Tail(seq), x, y)

\* mutant: the bounds check hides the topmost element and leaves it hidden
SpatialAnalysis_Hiding(els, x, y, checked, pe) ==
    Outcome("miss", Null, <<>>, checked, [pe EXCEPT ![els[1]] = "none"])

\* Strategy 2 (non-mutating): rectangle and z-index of every stack element are
\* read outside any guard, then the elements are taken by ascending z-index
SpatialAnalysis(els, x, y, checked, pe) ==
    IF \E i \in 1..Len(els) : RectThrows(els[i]) \/ StyleThrows(els[i])
    THEN Outcome("throw", Null, <<>>, checked, pe)
    ELSE FirstImage(WithinBounds(SortByZIndex(els), x, y), 1, <<>>, checked, pe)

\* currentElement, currentElement.parentElement, ... up to body (excluded)
RECURSIVE ParentChain(_)
ParentChain(currentElement) ==
    IF currentElement = 0 \/ currentElement = Body THEN <<>>
    ELSE <<currentElement>> \o ParentChain(doc.parent[currentElement])

\* mutant: the walk starts at the parent of the topmost stack element
ParentTraversal_FromTopmost(els, checked, pe) ==
    LET currentElement == IF els = <<>> THEN 0 ELSE doc.parent[els[1]]
    IN  FirstImage(ParentChain(currentElement), 1, <<>>, checked, pe)

\* Strategy 3 (non-mutating): the ancestors of the last stack element
\* (deepestElement?.parentElement: nothing to walk when the stack is empty)
ParentTraversal(els, checked, pe) ==
    LET currentElement == IF els = <<>> THEN 0 ELSE doc.parent[els[Len(els)]]
    IN  FirstImage(ParentChain(currentElement), 1, <<>>, checked, pe)

searchRadius == 10

\* mutant: every rectangle counts as intersecting the search area
Intersects_Always(rect, x, y) == TRUE

\* rect.left <= searchArea.right && rect.right >= searchArea.left && ...
Intersects(rect, x, y) ==
    /\ rect.left <= x + searchRadius
    /\ rect.right >= x - searchRadius
    /\ rect.top <= y + searchRadius
    /\ rect.bottom >= y - searchRadius

\* Strategy 4 (non-mutating): every element of the document whose rectangle
\* intersects the search area; the rectangle is read outside any guard
RECURSIVE ScanLoop(_, _, _, _, _, _, _)
ScanLoop(seq, i, x, y, log, checked, pe) ==
    IF i > Len(seq) THEN Outcome("miss", Null, log, checked, pe)
    ELSE IF RectThrows(seq[i]) THEN Outcome("throw", Null, log, checked, pe)
    ELSE IF ~Intersects(doc.rect[seq[i]], x, y)
    THEN ScanLoop(seq, i + 1, x, y, log, checked, pe)
    ELSE LET r == Resolve(seq[i])
             log2 == IF r.logged THEN Append(log, seq[i]) ELSE log
         IN  IF r.url # Null
             THEN Outcome("hit", r.url, log2, checked, pe)
             ELSE ScanLoop(seq, i + 1, x, y, log2, checked, pe)

\* mutant: the document is scanned from its last element to its first
ViewportBoundsCheck_LastFirst(x, y, checked, pe) ==
    ScanLoop([i \in 1..NumElems |-> AllElements[NumElems + 1 - i]], 1, x, y,
             <<>>, checked, pe)

ViewportBoundsCheck(x, y, checked, pe) ==
    ScanLoop(AllElements, 1, x, y, <<>>, checked, pe)

\* the descendants of every stack element, stack order first
RECURSIVE AllDescendants(_)
AllDescendants(els) ==
    IF els = <<>> THEN <<>>
    ELSE Descendants(Head(els)) \o AllDescendants(Tail(els))

\* Strategy 4 (mutating): the descendants of the stack elements
ChildElementCheck(els, checked, pe) ==
    FirstImage(AllDescendants(els), 1, <<>>, checked, pe)

(***************************************************************************)
(* findBackgroundImageAtCoordinates: results and steps                     *)
(***************************************************************************)
NoElementsReason == "No elements found at coordinates"
NoImageReason == "No image found at coordinates"
NoBackgroundImageReason == "No background image found at coordinates"
ErrorMarker == "Error detecting background image: "

Success(url, dbg) ==
    [status |-> "returned", success |-> TRUE, url |-> url, error |-> Null,
     debugInfo |-> dbg]

\* mutant: a failure carries a diagnostic record made anew
Failure_FreshDebugInfo(reason, dbg) ==
    [status |-> "returned", success |-> FALSE, url |-> Null, error |-> <<reason>>,
     debugInfo |-> [coordinates |-> dbg.coordinates, elementsFound |-> 0,
                    strategy |-> "", elementsChecked |-> <<>>]]

Failure(reason, dbg) ==
    [status |-> "returned", success |-> FALSE, url |-> Null, error |-> <<reason>>,
     debugInfo |-> dbg]

\* mutant: no outer catch, the fault leaves the function
OuterCatch_Rethrow(value, dbg) ==
    [status |-> "thrown", success |-> FALSE, url |-> Null,
     error |-> <<value.message>>, debugInfo |-> dbg]

\* catch (error) { return { success: false, error: `Error detecting ...` } }
OuterCatch(value, dbg) ==
    [status |-> "returned", success |-> FALSE, url |-> Null,
     error |-> <<ErrorMarker,
                 IF value.isError THEN value.message ELSE "Unknown error">>,
     debugInfo |-> dbg]

\* mutant: the ancestors are walked before the bounds check of the stack
NextStrategy_Swapped(v, s) ==
    CASE v = "non-mutating" /\ s = "direct-check" -> "parent-traversal"
      [] v = "non-mutating" /\ s = "parent-traversal" -> "spatial-analysis"
      [] v = "non-mutating" /\ s = "spatial-analysis" -> "viewport-bounds-check"
      [] v # "non-mutating" /\ s = "direct-check" -> "pointer-events-manipulation"
      [] v # "non-mutating" /\ s = "pointer-events-manipulation" -> "z-index-sorting"
      [] v = "pointer-events" /\ s = "z-index-sorting" -> "child-element-check"
      [] OTHER -> "exhausted"

\* mutant: the copy in the content script ends after the ancestor traversal
NextStrategy_InlineWithoutScan(v, s) ==
    CASE v = "non-mutating" /\ s = "direct-check" -> "spatial-analysis"
      [] v = "non-mutating" /\ s = "spatial-analysis" -> "parent-traversal"
      [] v = "non-mutating" /\ s = "parent-traversal" -> "viewport-bounds-check"
      [] v = "content-inline" /\ s = "direct-check" -> "spatial-analysis"
      [] v = "content-inline" /\ s = "spatial-analysis" -> "parent-traversal"
      [] v \in {"background-only", "pointer-events"} /\ s = "direct-check" ->
            "pointer-events-manipulation"
      [] v \in {"background-only", "pointer-events"}
           /\ s = "pointer-events-manipulation" -> "z-index-sorting"
      [] v = "pointer-events" /\ s = "z-index-sorting" -> "child-element-check"
      [] OTHER -> "exhausted"

\* the strategy that follows strategy s in the code of variant v; the variant
\* "content-inline" is the copy of the non-mutating detector at the head of the
\* content script
NextStrategy(v, s) ==
    CASE v = "non-mutating" /\ s = "direct-check" -> "spatial-analysis"
      [] v = "non-mutating" /\ s = "spatial-analysis" -> "parent-traversal"
      [] v = "non-mutating" /\ s = "parent-traversal" -> "viewport-bounds-check"
      [] v = "content-inline" /\ s = "direct-check" -> "spatial-analysis"
      [] v = "content-inline" /\ s = "spatial-analysis" -> "parent-traversal"
      [] v = "content-inline" /\ s = "parent-traversal" -> "viewport-bounds-check"
      [] v \in {"background-only", "pointer-events"} /\ s = "direct-check" ->
            "pointer-events-manipulation"
      [] v \in {"background-only", "pointer-events"}
           /\ s = "pointer-events-manipulation" -> "z-index-sorting"
      [] v = "pointer-events" /\ s = "z-index-sorting" -> "child-element-check"
      [] OTHER -> "exhausted"

\* mutant: the exhaustion failure reuses the reason of the empty hit-test
ExhaustedReason_NoElements(v) == NoElementsReason

\* the reason of the failure returned after the last strategy
ExhaustedReason(v) ==
    IF v = "background-only" THEN NoBackgroundImageReason ELSE NoImageReason

\* what a strategy's outcome does to the call: return on a hit, return the outer
\* catch's result on a throw, go on to the next strategy or return the
\* exhaustion failure on a miss
Conclude(strategy, o) ==
    LET dbg == [debugInfo EXCEPT !.strategy = strategy, !.elementsChecked = o.checked]
        next == NextStrategy(variant, strategy)
    IN  /\ debugInfo' = dbg
        /\ ran' = Append(ran, strategy)
        /\ console' = console \o o.log
        /\ pointerEvents' = o.pe
        /\ IF o.kind = "hit"
           THEN pc' = "done" /\ returned' = Append(returned, Success(o.url, dbg))
           ELSE IF o.kind = "throw"
           THEN pc' = "done" /\ returned' = Append(returned, OuterCatch(o.value, dbg))
           ELSE IF next = "exhausted"
           THEN /\ pc' = "done"
                /\ returned' = Append(returned, Failure(ExhaustedReason(variant), dbg))
           ELSE pc' = next /\ UNCHANGED returned
        /\ UNCHANGED <<doc, variant, query, elements, callsLeft, peBefore, exVars, elVars,
                     dlVars, ilVars>>

\* mutant: the empty candidate stack is not checked for
AcquireStack_NoEmptyCheck(pe, x, y, dbg0) ==
    IF HitTestThrows
    THEN [kind |-> "throw", elements |-> <<>>, dbg |-> dbg0]
    ELSE LET els == elementsFromPoint(pe, x, y)
         IN  [kind |-> "found", elements |-> els,
              dbg |-> [dbg0 EXCEPT !.elementsFound = Len(els)]]

\* Step 0: the hit-test at the query point. kind is "throw" (the hit-test
\* threw), "empty" (no element: the call fails at once) or "found"
AcquireStack(pe, x, y, dbg0) ==
    IF HitTestThrows
    THEN [kind |-> "throw", elements |-> <<>>, dbg |-> dbg0]
    ELSE LET els == elementsFromPoint(pe, x, y)
             dbg == [dbg0 EXCEPT !.elementsFound = Len(els)]
         IN  IF Len(els) = 0
             THEN [kind |-> "empty", elements |-> els, dbg |-> dbg]
             ELSE [kind |-> "found", elements |-> els, dbg |-> dbg]

\* a call of findBackgroundImageAtCoordinates(x, y) starts: debugInfo is created
\* and the candidate stack acquired
Acquire ==
    /\ pc \in {"idle", "done"}
    /\ callsLeft > 0
    /\ callsLeft' = callsLeft - 1
    /\ peBefore' = pointerEvents
    /\ LET dbg0 == [coordinates |-> query, elementsFound |-> 0, strategy |-> "",
                    elementsChecked |-> <<>>]
           a == AcquireStack(pointerEvents, query.x, query.y, dbg0)
       IN  /\ ran' = <<>>
           /\ console' = <<>>
           /\ elements' = a.elements
           /\ debugInfo' = a.dbg
           /\ IF a.kind = "throw"
              THEN /\ pc' = "done"
                   /\ returned' = Append(returned, OuterCatch(doc.fault.value, a.dbg))
              ELSE IF a.kind = "empty"
              THEN /\ pc' = "done"
                   /\ returned' = Append(returned, Failure(NoElementsReason, a.dbg))
              ELSE /\ pc' = "direct-check"
                   /\ UNCHANGED returned
    /\ UNCHANGED <<doc, pointerEvents, variant, query, exVars, elVars, dlVars, ilVars>>

StepDirectCheck ==
    /\ pc = "direct-check"
    /\ Conclude("direct-check", DirectCheck(elements, <<>>, pointerEvents))

StepPointerEventsManipulation ==
    /\ pc = "pointer-events-manipulation"
    /\ Conclude("pointer-events-manipulation",
                PointerEventsManipulation(elements, query.x, query.y,
                                          debugInfo.elementsChecked, pointerEvents))

StepZIndexSorting ==
    /\ pc = "z-index-sorting"
    /\ Conclude("z-index-sorting",
                ZIndexSorting(elements, debugInfo.elementsChecked, pointerEvents))

StepSpatialAnalysis ==
    /\ pc = "spatial-analysis"
    /\ Conclude("spatial-analysis",
                SpatialAnalysis(elements, query.x, query.y,
                                debugInfo.elementsChecked, pointerEvents))

StepParentTraversal ==
    /\ pc = "parent-traversal"
    /\ Conclude("parent-traversal",
                ParentTraversal(elements, debugInfo.elementsChecked, pointerEvents))

StepViewportBoundsCheck ==
    /\ pc = "viewport-bounds-check"
    /\ Conclude("viewport-bounds-check",
                ViewportBoundsCheck(query.x, query.y,
                                    debugInfo.elementsChecked, pointerEvents))

StepChildElementCheck ==
    /\ pc = "child-element-check"
    /\ Conclude("child-element-check",
                ChildElementCheck(elements, debugInfo.elementsChecked, pointerEvents))

(***************************************************************************)
(* findBackgroundImageAtCoordinates as one synchronous call                *)
(*                                                                         *)
(* The listeners of the content script call the function and use its       *)
(* result at once. The call yields [result, pe]: the result returned and   *)
(* the inline pointer-events values it leaves behind.                      *)
(***************************************************************************)
StrategyOutcome(strategy, els, x, y, checked, pe) ==
    CASE strategy = "direct-check" -> DirectCheck(els, <<>>, pe)
      [] strategy = "pointer-events-manipulation" ->
            PointerEventsManipulation(els, x, y, checked, pe)
      [] strategy = "z-index-sorting" -> ZIndexSorting(els, checked, pe)
      [] strategy = "spatial-analysis" -> SpatialAnalysis(els, x, y, checked, pe)
      [] strategy = "parent-traversal" -> ParentTraversal(els, checked, pe)
      [] strategy = "viewport-bounds-check" -> ViewportBoundsCheck(x, y, checked, pe)
      [] strategy = "child-element-check" -> ChildElementCheck(els, checked, pe)

\* the strategies of the function of variant v, from strategy on
RECURSIVE RunStrategies(_, _, _, _, _, _, _)
RunStrategies(v, strategy, els, x, y, dbg, pe) ==
    LET o == StrategyOutcome(strategy, els, x, y, dbg.elementsChecked, pe)
        dbg2 == [dbg EXCEPT !.strategy = strategy, !.elementsChecked = o.checked]
        next == NextStrategy(v, strategy)
    IN  IF o.kind = "hit" THEN [result |-> Success(o.url, dbg2), pe |-> o.pe]
        ELSE IF o.kind = "throw"
        THEN [result |-> OuterCatch(o.value, dbg2), pe |-> o.pe]
        ELSE IF next = "exhausted"
        THEN [result |-> Failure(ExhaustedReason(v), dbg2), pe |-> o.pe]
        ELSE RunStrategies(v, next, els, x, y, dbg2, o.pe)

\* the function of variant v called at (x, y)
CallOf(v, pe, x, y) ==
    LET dbg0 == [coordinates |-> [x |-> x, y |-> y], elementsFound |-> 0,
                 strategy |-> "", elementsChecked |-> <<>>]
        a == AcquireStack(pe, x, y, dbg0)
    IN  IF a.kind = "throw"
        THEN [result |-> OuterCatch(doc.fault.value, a.dbg), pe |-> pe]
        ELSE IF a.kind = "empty"
        THEN [result |-> Failure(NoElementsReason, a.dbg), pe |-> pe]
        ELSE RunStrategies(v, "direct-check", a.elements, x, y, a.dbg, pe)

findBackgroundImageAtCoordinates(pe, x, y) == CallOf(variant, pe, x, y)

(***************************************************************************)
(* The documents and queries of the check                                  *)
(***************************************************************************)
Digit == <<"1", "2", "3", "4", "5", "6", "7", "8", "9">>
ClassNames == <<"", "page", "c3", "c4", "c5", "c6", "c7", "c8", "c9">>

BgUrlOf(e) == <<"b", Digit[e]>>
SrcOf(e) == <<"s", Digit[e]>>

Kinds == {"plain", "bg", "img"}

ViewportRect == [left |-> 0, right |-> ViewportSize, top |-> 0, bottom |-> ViewportSize]
\* relative to the query point (50, 50): under it, within the search radius
\* (touching its border), outside it
RectAt == [left |-> 40, right |-> 60, top |-> 40, bottom |-> 60]
RectNear == [left |-> 60, right |-> 80, top |-> 40, bottom |-> 60]
RectFar == [left |-> 61, right |-> 80, top |-> 40, bottom |-> 60]
Rects == {RectAt, RectNear, RectFar}

QueryInside == [x |-> 50, y |-> 50]
QueryOutside == [x |-> -5, y |-> -5]
\* a point beside the content elements, whose boxes touch its search area
QueryBeside == [x |-> 70, y |-> 50]

RECURSIVE AncestorIn(_, _, _)
AncestorIn(p, a, e) == p[e] # 0 /\ (p[e] = a \/ AncestorIn(p, a, p[e]))

\* the parent maps of documents whose numbering is the document order
ParentMaps ==
    { p \in [Elems -> 0..NumElems] :
        /\ p[Root] = 0
        /\ p[Body] = Root
        /\ \A e \in Content :
            /\ p[e] \in Body..(e - 1)
            /\ (p[e] = e - 1 \/ AncestorIn(p, p[e], e - 1)) }

NoFault == [kind |-> "none", who |-> {}, value |-> ErrorValue]

\* the accessor faults: the hit-test throws (an Error or another value), the
\* re-query throws, the style read or the inline style of one content element or
\* of every element throws, every geometry read throws
Faults ==
    {NoFault}
    \cup { [kind |-> "hit", who |-> {}, value |-> v] : v \in {ErrorValue, NonErrorValue} }
    \cup { [kind |-> "probe", who |-> {}, value |-> ErrorValue],
           [kind |-> "rect", who |-> Elems, value |-> ErrorValue] }
    \cup { [kind |-> "style", who |-> w, value |-> ErrorValue] :
             w \in {Elems} \cup { {e} : e \in Content } }
    \cup { [kind |-> "inline", who |-> {e}, value |-> ErrorValue] : e \in Content }

\* at most one content element lies off the query point
Placements ==
    { [e \in Content |-> RectAt] }
    \cup { [e \in Content |-> IF e = off THEN r ELSE RectAt] :
             off \in Content, r \in {RectNear, RectFar} }

\* at most one content element has a z-index
Stackings ==
    { [e \in Content |-> IF e = raised THEN ZNum(1) ELSE ZAuto] :
        raised \in {0} \cup Content }

\* at most one element has an inline pointer-events value
InlineStyles ==
    { [e \in Elems |-> IF e = styled THEN "auto" ELSE ""] :
        styled \in {0} \cup Content }

DocumentsOf(Ps, Zs, Rs, Fs) ==
    { [tagName |-> [e \in Elems |->
                      IF e = Root THEN "HTML" ELSE IF e = Body THEN "BODY"
                      ELSE IF kind[e] = "img" THEN "IMG" ELSE "DIV"],
       className |-> [e \in Elems |-> ClassNames[e]],
       src |-> [e \in Elems |->
                  IF e \in Content /\ kind[e] = "img" THEN SrcOf(e) ELSE <<>>],
       backgroundImage |-> [e \in Elems |->
                  IF e \in Content /\ kind[e] = "bg" THEN UrlDouble(BgUrlOf(e))
                  ELSE NoneStr],
       zIndex |-> [e \in Elems |-> IF e \in Content THEN z[e] ELSE ZAuto],
       rect |-> [e \in Elems |-> IF e \in Content THEN rect[e] ELSE ViewportRect],
       parent |-> p,
       fault |-> f,
       stubbed |-> FALSE,
       stack |-> <<>>] :
      kind \in [Content -> Kinds], z \in Zs, rect \in Rs, p \in Ps, f \in Fs }

Documents == DocumentsOf(ParentMaps, Stackings, Placements, Faults)

\* outside the viewport only the hit-test is consulted: the documents differ in
\* their elements' kinds and in the hit-test fault
DocumentsOutside ==
    DocumentsOf(ParentMaps, { [e \in Content |-> ZAuto] },
                { [e \in Content |-> RectAt] },
                { f \in Faults : f.kind \in {"none", "hit"} })

\* lastRightClickCoordinates: null, or the client coordinates of an event
NullCoordinates == [isNull |-> TRUE, x |-> 0, y |-> 0]
Coordinates(c) == [isNull |-> FALSE, x |-> c.x, y |-> c.y]

\* the content script and the background script while locate is checked on its own
IdleDelivery ==
    /\ lastRightClickCoordinates = NullCoordinates
    /\ clipboardApi = TRUE
    /\ menuShown = FALSE
    /\ tabMessages = 0
    /\ deliveries = <<>>
    /\ clipboard = Null
    /\ clicks = <<>>
    /\ handled = <<>>

IdleInterleaving == calls = <<>> /\ overlapped = FALSE

IdleExtract == exIn = [form |-> "empty", X |-> <<>>, value |-> <<>>] /\ exOut = Pending
ElPending == [url |-> Pending, logged |-> FALSE]

IdleElement ==
    /\ elIn = [id |-> 0, tagName |-> "DIV", className |-> "", src |-> <<>>,
               backgroundImage |-> NoneStr, zIndex |-> ZAuto, styleThrows |-> FALSE]
    /\ elOut = ElPending

InitLocate ==
    /\ \/ query = QueryInside /\ doc \in Documents
       \/ query = QueryOutside /\ doc \in DocumentsOutside
    /\ pointerEvents \in InlineStyles
    /\ variant \in Variants
    /\ pc = "idle"
    /\ elements = <<>>
    /\ debugInfo = [coordinates |-> query, elementsFound |-> 0, strategy |-> "",
                    elementsChecked |-> <<>>]
    /\ ran = <<>>
    /\ console = <<>>
    /\ returned = <<>>
    /\ peBefore = pointerEvents
    /\ IdleExtract
    /\ IdleElement
    /\ IdleDelivery
    /\ IdleInterleaving

\* one call of locate
Init == InitLocate /\ callsLeft = 1

\* the answers of a hit-test that is given: up to MaxElems distinct elements,
\* the root not necessarily among them
Stacks ==
    { st \in UNION { [1..n -> Elems] : n \in 1..MaxElems } :
        \A i, j \in 1..Len(st) : i # j => st[i] # st[j] }

\* documents whose elementsFromPoint is given (an implementation that does not
\* append the root element, or a document object with the accessor replaced):
\* the style read of one content element may fail, body may carry a
\* background image
StubbedDocuments ==
    { [d EXCEPT !.stubbed = TRUE, !.stack = st,
                !.backgroundImage[Body] =
                    IF bodyImage THEN UrlDouble(BgUrlOf(Body)) ELSE NoneStr] :
        d \in DocumentsOf(ParentMaps, { [e \in Content |-> ZAuto] }, Placements,
                          {NoFault} \cup { [kind |-> "style", who |-> {e},
                                            value |-> ErrorValue] : e \in Content }),
        st \in Stacks, bodyImage \in BOOLEAN }

\* one call of the non-mutating locate against a document with a given hit-test
InitStubbed ==
    /\ doc \in StubbedDocuments
    /\ query = QueryInside
    /\ pointerEvents = [e \in Elems |-> ""]
    /\ variant = "non-mutating"
    /\ pc = "idle"
    /\ elements = <<>>
    /\ debugInfo = [coordinates |-> query, elementsFound |-> 0, strategy |-> "",
                    elementsChecked |-> <<>>]
    /\ ran = <<>>
    /\ console = <<>>
    /\ returned = <<>>
    /\ peBefore = pointerEvents
    /\ callsLeft = 1
    /\ IdleExtract
    /\ IdleElement
    /\ IdleDelivery
    /\ IdleInterleaving

\* one call of the function at the head of the content script
InitInline ==
    /\ \/ query = QueryInside /\ doc \in Documents
       \/ query = QueryOutside /\ doc \in DocumentsOutside
    /\ pointerEvents \in InlineStyles
    /\ variant = "content-inline"
    /\ pc = "idle"
    /\ elements = <<>>
    /\ debugInfo = [coordinates |-> query, elementsFound |-> 0, strategy |-> "",
                    elementsChecked |-> <<>>]
    /\ ran = <<>>
    /\ console = <<>>
    /\ returned = <<>>
    /\ peBefore = pointerEvents
    /\ callsLeft = 1
    /\ IdleExtract
    /\ IdleElement
    /\ IdleDelivery
    /\ IdleInterleaving

NextInline ==
    \/ Acquire
    \/ StepDirectCheck
    \/ StepSpatialAnalysis
    \/ StepParentTraversal
    \/ StepViewportBoundsCheck

SpecInline == InitInline /\ [][NextInline]_vars

NextStubbed ==
    \/ Acquire
    \/ StepDirectCheck
    \/ StepSpatialAnalysis
    \/ StepParentTraversal
    \/ StepViewportBoundsCheck

SpecStubbed == InitStubbed /\ [][NextStubbed]_vars

\* two calls in succession against the same document
InitTwice == InitLocate /\ callsLeft = 2

Next ==
    \/ Acquire
    \/ StepDirectCheck
    \/ StepPointerEventsManipulation
    \/ StepZIndexSorting
    \/ StepSpatialAnalysis
    \/ StepParentTraversal
    \/ StepViewportBoundsCheck
    \/ StepChildElementCheck

Spec == Init /\ [][Next]_vars

SpecTwice == InitTwice /\ [][Next]_vars

\* one call of locate against a document of either kind
InitAnyHitTest == Init \/ InitStubbed

SpecAnyHitTest == InitAnyHitTest /\ [][Next]_vars

(***************************************************************************)
(* Inputs of the extraction check                                          *)
(***************************************************************************)
XChars == {"a", ")", "(", SQ, DQ, NL}

RECURSIVE StringsUpTo(_, _)
StringsUpTo(chars, n) ==
    IF n = 0 THEN {<<>>}
    ELSE LET shorter == StringsUpTo(chars, n - 1)
         IN  shorter \cup { Append(s, c) : s \in shorter, c \in chars }

\* values that are not of the form url(...): a gradient-like function value,
\* an unterminated url( and a bare word
NoPatternValues ==
    { <<"a", "(", "a", ")">>, UrlOpen \o <<"a">>, <<"u", "r", "l">>, <<"a">>,
      <<"u", "r", "l", ")", "(">> }

ExInputs ==
    { [form |-> "bare", X |-> X, value |-> UrlBare(X)] : X \in StringsUpTo(XChars, MaxLen) }
    \cup { [form |-> "single", X |-> X, value |-> UrlSingle(X)] : X \in StringsUpTo(XChars, MaxLen) }
    \cup { [form |-> "double", X |-> X, value |-> UrlDouble(X)] : X \in StringsUpTo(XChars, MaxLen) }
    \cup { [form |-> "none", X |-> <<>>, value |-> NoneStr],
           [form |-> "empty", X |-> <<>>, value |-> <<>>] }
    \cup { [form |-> "nopattern", X |-> <<>>, value |-> v] : v \in NoPatternValues }

\* the locate variables while a helper is checked on its own
IdleLocate ==
    /\ doc = [fault |-> NoFault]
    /\ pointerEvents = <<>>
    /\ variant = "non-mutating"
    /\ query = QueryInside
    /\ pc = "idle"
    /\ elements = <<>>
    /\ debugInfo = <<>>
    /\ ran = <<>>
    /\ console = <<>>
    /\ returned = <<>>
    /\ callsLeft = 0
    /\ peBefore = <<>>

InitExtract ==
    /\ exIn \in ExInputs
    /\ exOut = Pending
    /\ IdleElement
    /\ IdleLocate
    /\ IdleDelivery
    /\ IdleInterleaving

CallExtract ==
    /\ exOut = Pending
    /\ exOut' = extractBackgroundImageUrl(exIn.value)
    /\ UNCHANGED <<exIn, elVars, locVars, dlVars, ilVars>>

NextExtract == CallExtract

(***************************************************************************)
(* Inputs of the per-element resolution check                              *)
(***************************************************************************)
\* tagName is upper case in an HTML document and as written in an XML document
ElInputs ==
    { [id |-> 0, tagName |-> t, className |-> "", src |-> src,
       backgroundImage |-> bg, zIndex |-> ZAuto, styleThrows |-> th] :
      t \in {"IMG", "DIV", "SPAN", "img"},
      src \in {<<>>, <<"s">>},
      bg \in {NoneStr, <<>>, UrlDouble(<<"b">>), UrlSingle(<<"b">>), UrlBare(<<"b">>),
              <<"a", "(", "b", ")">>},
      th \in BOOLEAN }

InitElement ==
    /\ elIn \in ElInputs
    /\ elOut = ElPending
    /\ IdleExtract
    /\ IdleLocate
    /\ IdleDelivery
    /\ IdleInterleaving

CallElement ==
    /\ elOut = ElPending
    /\ elOut' = getElementImageUrl(elIn)
    /\ UNCHANGED <<elIn, exVars, locVars, dlVars, ilVars>>

NextElement == CallElement

SpecElement == InitElement /\ [][NextElement]_vars

SpecExtract == InitExtract /\ [][NextExtract]_vars

(***************************************************************************)
(* The delivery channel: content script and background script              *)
(*                                                                         *)
(* A delivery is [url, primary, fallback, requests]: primary is the state  *)
(* of navigator.clipboard.writeText in the content script ("unavailable",  *)
(* "pending", "fulfilled", "rejected"), fallback the state of the          *)
(* 'copyToClipboard' request ("none", "sent", "writing", "written",        *)
(* "failed") and requests the number of such requests sent for the URL.    *)
(***************************************************************************)
MaxClicks == 2  \* contextmenu events on the document

MenuItemId == "copy-background-image-url"
NoCoordinatesError == "No right-click coordinates available"

\* document.addEventListener('contextmenu', (event) => { ... })
\* mutant: the coordinates of the first event are kept
OnContextMenu_KeepFirst(coords, event) ==
    IF coords.isNull THEN Coordinates(event) ELSE coords

OnContextMenu(coords, event) == Coordinates(event)

\* mutant: the fallback request is sent together with the primary write
StartDelivery_Both(url, api) ==
    [url |-> url, primary |-> IF api THEN "pending" ELSE "unavailable",
     fallback |-> "sent", requests |-> 1]

\* if (navigator.clipboard && navigator.clipboard.writeText) writeText(url)
\* else chrome.runtime.sendMessage({ action: 'copyToClipboard', url })
StartDelivery(url, api) ==
    IF api
    THEN [url |-> url, primary |-> "pending", fallback |-> "none", requests |-> 0]
    ELSE [url |-> url, primary |-> "unavailable", fallback |-> "sent", requests |-> 1]

\* mutant: the rejection is logged and no fallback request is sent
OnPrimaryRejected_LogOnly(d) == [d EXCEPT !.primary = "rejected"]

\* .catch((error) => { chrome.runtime.sendMessage({ action: 'copyToClipboard', url }) })
OnPrimaryRejected(d) ==
    [d EXCEPT !.primary = "rejected", !.fallback = "sent", !.requests = @ + 1]

\* mutant: the listener does not look whether a right-click was recorded
HasCoordinates_Unchecked(coords) == TRUE

\* if (!lastRightClickCoordinates) { sendResponse({ found: false, ... }); return; }
HasCoordinates(coords) == ~coords.isNull

\* the content script is inside its 'getBackgroundImageUrl' listener: no other
\* listener of the content script runs before it has returned
Locating == handled # <<>> /\ handled[Len(handled)].state = "locating"

\* the user right-clicks the document at a point: the listener stores the
\* coordinates and the browser shows the context menu
ContextMenu ==
    /\ ~Locating
    /\ callsLeft > 0
    /\ callsLeft' = callsLeft - 1
    /\ \E event \in {QueryInside, QueryBeside} :
        /\ lastRightClickCoordinates' = OnContextMenu(lastRightClickCoordinates, event)
        /\ clicks' = Append(clicks, event)
    /\ menuShown' = TRUE
    /\ UNCHANGED <<clipboardApi, tabMessages, deliveries, clipboard, handled,
                   doc, pointerEvents, variant, query, pc, elements, debugInfo, ran,
                   console, returned, peBefore, exVars, elVars, ilVars>>

\* chrome.contextMenus.onClicked: the user picks an entry of the menu
MenuClicked ==
    /\ menuShown
    /\ menuShown' = FALSE
    /\ \E menuItemId \in {MenuItemId, "other"}, tabHasId \in BOOLEAN :
        tabMessages' = IF menuItemId = MenuItemId /\ tabHasId
                       THEN tabMessages + 1 ELSE tabMessages
    /\ UNCHANGED <<lastRightClickCoordinates, clipboardApi, deliveries, clipboard,
                   clicks, handled, exVars, elVars, locVars, ilVars>>

\* chrome.runtime.onMessage in the content script, action 'getBackgroundImageUrl':
\* up to the hit-test of findBackgroundImageAtCoordinates
HandleGetBackgroundImageUrl ==
    /\ tabMessages > 0
    /\ ~Locating
    /\ tabMessages' = tabMessages - 1
    /\ IF ~HasCoordinates(lastRightClickCoordinates)
       THEN /\ handled' = Append(handled,
                            [clicksSeen |-> Len(clicks),
                             coordinates |-> lastRightClickCoordinates,
                             state |-> "responded", located |-> FALSE,
                             found |-> FALSE, url |-> Null,
                             error |-> <<NoCoordinatesError>>, responses |-> 1])
            /\ UNCHANGED <<query, pc, elements, debugInfo, ran, console, returned,
                           peBefore>>
       ELSE LET q == [x |-> lastRightClickCoordinates.x,
                      y |-> lastRightClickCoordinates.y]
                dbg0 == [coordinates |-> q, elementsFound |-> 0, strategy |-> "",
                         elementsChecked |-> <<>>]
                a == AcquireStack(pointerEvents, q.x, q.y, dbg0)
            IN  /\ query' = q
                /\ peBefore' = pointerEvents
                /\ ran' = <<>>
                /\ console' = <<>>
                /\ elements' = a.elements
                /\ debugInfo' = a.dbg
                /\ IF a.kind = "throw"
                   THEN /\ pc' = "done"
                        /\ returned' = Append(returned, OuterCatch(doc.fault.value, a.dbg))
                   ELSE IF a.kind = "empty"
                   THEN /\ pc' = "done"
                        /\ returned' = Append(returned, Failure(NoElementsReason, a.dbg))
                   ELSE /\ pc' = "direct-check"
                        /\ UNCHANGED returned
                /\ handled' = Append(handled,
                                [clicksSeen |-> Len(clicks),
                                 coordinates |-> lastRightClickCoordinates,
                                 state |-> "locating", located |-> TRUE,
                                 found |-> FALSE, url |-> Null, error |-> Null,
                                 responses |-> 0])
    /\ UNCHANGED <<lastRightClickCoordinates, clipboardApi, menuShown, deliveries,
                   clipboard, clicks, doc, pointerEvents, variant, callsLeft,
                   exVars, elVars, ilVars>>

\* mutant: the response reports an image whatever the result
ResponseTo_AlwaysFound(result) ==
    [found |-> TRUE, url |-> result.url, error |-> Null]

\* sendResponse({ found: true, url: result.url }) if (result.success && result.url),
\* else sendResponse({ found: false, error: result.error })
ResponseTo(result) ==
    IF result.success /\ result.url # Null /\ result.url # <<>>
    THEN [found |-> TRUE, url |-> result.url, error |-> Null]
    ELSE [found |-> FALSE, url |-> Null, error |-> result.error]

\* the rest of the listener, once findBackgroundImageAtCoordinates has returned:
\* the URL goes to the clipboard sinks and the response is sent
RespondGetBackgroundImageUrl ==
    /\ Locating
    /\ pc = "done"
    /\ LET result == returned[Len(returned)]
           response == ResponseTo(result)
       IN  /\ deliveries' = IF response.found
                            THEN Append(deliveries, StartDelivery(result.url, clipboardApi))
                            ELSE deliveries
           /\ handled' = [handled EXCEPT ![Len(handled)] =
                            [@ EXCEPT !.state = "responded",
                                      !.found = response.found,
                                      !.url = response.url,
                                      !.error = response.error,
                                      !.responses = @ + 1]]
    /\ UNCHANGED <<lastRightClickCoordinates, clipboardApi, menuShown, tabMessages,
                   clipboard, clicks, exVars, elVars, locVars, ilVars>>

DeliveryFrame ==
    UNCHANGED <<lastRightClickCoordinates, clipboardApi, menuShown, tabMessages, clicks,
                handled, exVars, elVars, locVars, ilVars>>

\* navigator.clipboard.writeText(result.url).then(...) in the content script
PrimaryWriteFulfilled ==
    /\ ~Locating
    /\ \E i \in 1..Len(deliveries) :
        /\ deliveries[i].primary = "pending"
        /\ deliveries' = [deliveries EXCEPT ![i].primary = "fulfilled"]
        /\ clipboard' = deliveries[i].url
    /\ DeliveryFrame

\* navigator.clipboard.writeText(result.url).catch(...) in the content script
PrimaryWriteRejected ==
    /\ ~Locating
    /\ \E i \in 1..Len(deliveries) :
        /\ deliveries[i].primary = "pending"
        /\ deliveries' = [deliveries EXCEPT ![i] = OnPrimaryRejected(deliveries[i])]
    /\ UNCHANGED clipboard
    /\ DeliveryFrame

\* chrome.runtime.onMessage in the background script, action 'copyToClipboard':
\* the write is started and awaited
BackgroundCopyToClipboard ==
    /\ \E i \in 1..Len(deliveries) :
        /\ deliveries[i].fallback = "sent"
        /\ deliveries' = [deliveries EXCEPT ![i].fallback = "writing"]
    /\ UNCHANGED clipboard
    /\ DeliveryFrame

\* await navigator.clipboard.writeText(message.url) returns: sendResponse({ success: true })
BackgroundWriteFulfilled ==
    /\ \E i \in 1..Len(deliveries) :
        /\ deliveries[i].fallback = "writing"
        /\ deliveries' = [deliveries EXCEPT ![i].fallback = "written"]
        /\ clipboard' = deliveries[i].url
    /\ DeliveryFrame

\* await navigator.clipboard.writeText(message.url) throws: sendResponse({ success: false })
BackgroundWriteRejected ==
    /\ \E i \in 1..Len(deliveries) :
        /\ deliveries[i].fallback = "writing"
        /\ deliveries' = [deliveries EXCEPT ![i].fallback = "failed"]
    /\ UNCHANGED clipboard
    /\ DeliveryFrame

\* the documents of the delivery check: the content elements are children of
\* body and lie under the first query point
DeliveryDocuments ==
    DocumentsOf({ [e \in Elems |-> IF e = Root THEN 0 ELSE IF e = Body THEN Root ELSE Body] },
                { [e \in Content |-> ZAuto] },
                { [e \in Content |-> RectAt] },
                { NoFault })

InitDeliveryChannel ==
    /\ doc \in DeliveryDocuments
    /\ variant \in {"non-mutating", "pointer-events"}
    /\ pointerEvents = [e \in Elems |-> ""]
    /\ query = QueryInside
    /\ pc = "idle"
    /\ elements = <<>>
    /\ debugInfo = [coordinates |-> query, elementsFound |-> 0, strategy |-> "",
                    elementsChecked |-> <<>>]
    /\ ran = <<>>
    /\ console = <<>>
    /\ returned = <<>>
    /\ peBefore = pointerEvents
    /\ lastRightClickCoordinates = NullCoordinates
    /\ clipboardApi \in BOOLEAN
    /\ menuShown \in BOOLEAN   \* the menu may be open before the script has loaded
    /\ tabMessages = 0
    /\ deliveries = <<>>
    /\ clipboard = Null
    /\ clicks = <<>>
    /\ handled = <<>>
    /\ IdleExtract
    /\ IdleElement
    /\ IdleInterleaving

InitDelivery == InitDeliveryChannel /\ callsLeft = MaxClicks

\* one right-click of the user
InitDeliveryOnce == InitDeliveryChannel /\ callsLeft = 1

NextDelivery ==
    \/ ContextMenu
    \/ MenuClicked
    \/ HandleGetBackgroundImageUrl
    \/ StepDirectCheck
    \/ StepPointerEventsManipulation
    \/ StepZIndexSorting
    \/ StepSpatialAnalysis
    \/ StepParentTraversal
    \/ StepViewportBoundsCheck
    \/ StepChildElementCheck
    \/ RespondGetBackgroundImageUrl
    \/ PrimaryWriteFulfilled
    \/ PrimaryWriteRejected
    \/ BackgroundCopyToClipboard
    \/ BackgroundWriteFulfilled
    \/ BackgroundWriteRejected

SpecDelivery == InitDelivery /\ [][NextDelivery]_vars

\* promises settle, a pending listener of the background script runs and a
\* listener that has its result goes on
SpecDeliveryFair ==
    /\ InitDeliveryOnce
    /\ [][NextDelivery]_vars
    /\ WF_vars(RespondGetBackgroundImageUrl)
    /\ WF_vars(PrimaryWriteFulfilled \/ PrimaryWriteRejected)
    /\ WF_vars(BackgroundCopyToClipboard)
    /\ WF_vars(BackgroundWriteFulfilled \/ BackgroundWriteRejected)

(***************************************************************************)
(* Invocations of locate running interleaved                               *)
(*                                                                         *)
(* Two invocations at the same query point share the document. A call is   *)
(* [pc, elements, debugInfo, i, originalStyles, pending, result]. The      *)
(* occlusion probing is taken apart into its steps: "save" (push the       *)
(* inline value of element i), "hide" (set it to none), "probe" (re-query  *)
(* and resolve) and "restore" (the finally block); pending is how the try  *)
(* block was left. The other strategies are one step each.                 *)
(***************************************************************************)
Procs == {1, 2}

DebugInfo0(q) ==
    [coordinates |-> q, elementsFound |-> 0, strategy |-> "", elementsChecked |-> <<>>]

NoResult(q) ==
    [status |-> "pending", success |-> FALSE, url |-> Null, error |-> Null,
     debugInfo |-> DebugInfo0(q)]

NewCall(q) ==
    [pc |-> "idle", elements |-> <<>>, debugInfo |-> DebugInfo0(q), i |-> 0,
     originalStyles |-> <<>>, pending |-> [kind |-> "miss", url |-> Null],
     result |-> NoResult(q)]

Running(call) == call.pc \notin {"idle", "done"}

\* the call after strategy has ended with kind "hit", "throw" or "miss"
Finish(call, strategy, kind, url, checked) ==
    LET dbg == [call.debugInfo EXCEPT !.strategy = strategy,
                                      !.elementsChecked = checked]
        next == NextStrategy(variant, strategy)
        ended == [call EXCEPT !.pc = "done", !.debugInfo = dbg]
    IN  IF kind = "hit" THEN [ended EXCEPT !.result = Success(url, dbg)]
        ELSE IF kind = "throw"
        THEN [ended EXCEPT !.result = OuterCatch(doc.fault.value, dbg)]
        ELSE IF next = "exhausted"
        THEN [ended EXCEPT !.result = Failure(ExhaustedReason(variant), dbg)]
        ELSE [call EXCEPT !.pc = IF next = "pointer-events-manipulation"
                                 THEN "save" ELSE next,
                          !.debugInfo = dbg, !.i = 1, !.originalStyles = <<>>]

\* a step of invocation p: the other one may be in the middle of its call
Step(p, call, pe) ==
    /\ calls' = [calls EXCEPT ![p] = call]
    /\ pointerEvents' = pe
    /\ overlapped' = (overlapped \/ \E o \in Procs \ {p} : Running(calls[o]))
    /\ UNCHANGED <<doc, variant, query, pc, elements, debugInfo, ran, console,
                   returned, callsLeft, peBefore, exVars, elVars, dlVars>>

\* the call starts: debugInfo and the hit-test
CallLocate(p) ==
    /\ calls[p].pc = "idle"
    /\ LET a == AcquireStack(pointerEvents, query.x, query.y, DebugInfo0(query))
           call == [calls[p] EXCEPT !.elements = a.elements, !.debugInfo = a.dbg]
       IN  Step(p,
                IF a.kind = "throw"
                THEN [call EXCEPT !.pc = "done",
                                  !.result = OuterCatch(doc.fault.value, a.dbg)]
                ELSE IF a.kind = "empty"
                THEN [call EXCEPT !.pc = "done",
                                  !.result = Failure(NoElementsReason, a.dbg)]
                ELSE [call EXCEPT !.pc = "direct-check"],
                pointerEvents)

\* a strategy that is one step: every one but the occlusion probing
RunStrategy(p) ==
    /\ calls[p].pc \in {"direct-check", "z-index-sorting", "spatial-analysis",
                        "parent-traversal", "viewport-bounds-check",
                        "child-element-check"}
    /\ \E o \in { StrategyOutcome(calls[p].pc, calls[p].elements, query.x, query.y,
                                  calls[p].debugInfo.elementsChecked,
                                  pointerEvents) } :
          Step(p, Finish(calls[p], calls[p].pc, o.kind, o.url, o.checked), o.pe)

\* mutant: the inline value is read after the element was hidden
SavedStyle_AfterHide(element, pe) == [element |-> element, pointerEvents |-> "none"]

\* { element: element, pointerEvents: htmlElement.style.pointerEvents }
SavedStyle(element, pe) == [element |-> element, pointerEvents |-> pe[element]]

\* originalStyles.push({ element, pointerEvents: htmlElement.style.pointerEvents })
SaveStyle(p) ==
    /\ calls[p].pc = "save"
    /\ LET call == calls[p]
           els == call.elements
       IN  IF call.i > Len(els) - 1
           THEN Step(p, [call EXCEPT !.pc = "restore",
                                     !.pending = [kind |-> "miss", url |-> Null]],
                     pointerEvents)
           ELSE IF InlineStyleThrows(els[call.i])
           THEN Step(p, [call EXCEPT !.pc = "restore",
                                     !.pending = [kind |-> "throw", url |-> Null]],
                     pointerEvents)
           ELSE Step(p, [call EXCEPT !.pc = "hide",
                            !.originalStyles =
                                Append(@, SavedStyle(els[call.i], pointerEvents))],
                     pointerEvents)

\* htmlElement.style.pointerEvents = 'none'
HideElement(p) ==
    /\ calls[p].pc = "hide"
    /\ LET call == calls[p]
       IN  Step(p, [call EXCEPT !.pc = "probe"],
                [pointerEvents EXCEPT ![call.elements[call.i]] = "none"])

\* const elementBehind = document.elementFromPoint(x, y) and its resolution;
\* on a match the styles are restored before the return
Probe(p) ==
    /\ calls[p].pc = "probe"
    /\ LET call == calls[p]
           elementBehind == elementFromPoint(pointerEvents, query.x, query.y)
           url == IF elementBehind # 0 THEN Resolve(elementBehind).url ELSE Null
       IN  IF ProbeThrows
           THEN Step(p, [call EXCEPT !.pc = "restore",
                                     !.pending = [kind |-> "throw", url |-> Null]],
                     pointerEvents)
           ELSE IF url # Null
           THEN Step(p, [call EXCEPT !.pc = "restore",
                                     !.pending = [kind |-> "hit", url |-> url]],
                     RestoreStyles(call.originalStyles, pointerEvents))
           ELSE Step(p, [call EXCEPT !.pc = "save", !.i = @ + 1], pointerEvents)

\* finally { originalStyles.forEach(...) }, then the return, the outer catch or
\* the next strategy
RestoreFinally(p) ==
    /\ calls[p].pc = "restore"
    /\ LET call == calls[p]
       IN  Step(p, Finish(call, "pointer-events-manipulation", call.pending.kind,
                          call.pending.url, call.debugInfo.elementsChecked),
                RestoreStyles(call.originalStyles, pointerEvents))

\* the documents of the interleaving check: the content elements are children
\* of body and lie under the query point; the inline style of the last one
\* may fail
InterleavingDocuments ==
    DocumentsOf({ [e \in Elems |-> IF e = Root THEN 0 ELSE IF e = Body THEN Root ELSE Body] },
                { [e \in Content |-> ZAuto] },
                { [e \in Content |-> RectAt] },
                { NoFault, [kind |-> "inline", who |-> {NumElems}, value |-> ErrorValue] })

InitInterleaved ==
    /\ doc \in InterleavingDocuments
    /\ variant \in Variants
    /\ pointerEvents \in InlineStyles
    /\ query = QueryInside
    /\ pc = "idle"
    /\ elements = <<>>
    /\ debugInfo = DebugInfo0(query)
    /\ ran = <<>>
    /\ console = <<>>
    /\ returned = <<>>
    /\ callsLeft = 0
    /\ peBefore = pointerEvents
    /\ calls = [p \in Procs |-> NewCall(query)]
    /\ overlapped = FALSE
    /\ IdleExtract
    /\ IdleElement
    /\ IdleDelivery

NextInterleaved ==
    \/ \E p \in Procs : CallLocate(p)
    \/ \E p \in Procs : RunStrategy(p)
    \/ \E p \in Procs : SaveStyle(p)
    \/ \E p \in Procs : HideElement(p)
    \/ \E p \in Procs : Probe(p)
    \/ \E p \in Procs : RestoreFinally(p)

SpecInterleaved == InitInterleaved /\ [][NextInterleaved]_vars

(***************************************************************************)
(* Claims                                                                  *)
(***************************************************************************)
LocateDone == pc = "done" /\ returned # <<>>
Result == returned[Len(returned)]
Started(strategy) == \E i \in 1..Len(ran) : ran[i] = strategy
IsPrefix(a, b) == Len(a) <= Len(b) /\ SubSeq(b, 1, Len(a)) = a

\* the order of the strategies, per variant, as the claims state it
StrategyOrder(v) ==
    IF v = "non-mutating"
    THEN <<"direct-check", "spatial-analysis", "parent-traversal",
           "viewport-bounds-check">>
    ELSE IF v = "pointer-events"
    THEN <<"direct-check", "pointer-events-manipulation", "z-index-sorting",
           "child-element-check">>
    ELSE <<"direct-check", "pointer-events-manipulation", "z-index-sorting">>

\* C1 (as stated): extraction returns exactly X for url(X), url('X') and
\* url("X"), and no match for none, the empty string and a value without a
\* url(...) pattern.
C1_ExtractsExactlyX ==
    exOut # Pending =>
        /\ exIn.form \in {"bare", "single", "double"} => exOut = exIn.X
        /\ exIn.form \in {"none", "empty", "nopattern"} => exOut = Null

\* C2 (as stated): when the topmost element of the candidate stack resolves to
\* an image, locate returns success with that URL from the direct check and
\* starts no later strategy.
C2_TopmostImageIsReturned ==
    (LocateDone /\ elements # <<>> /\ Resolve(elements[1]).url # Null) =>
        /\ Result.success
        /\ Result.url = Resolve(elements[1]).url
        /\ Result.debugInfo.strategy = "direct-check"
        /\ ran = <<"direct-check">>

\* C3: after a call that ran the occlusion probing (or the bounds check) the
\* inline pointer-events value of every element is what it was when the call
\* started, whether the call succeeded, found nothing or caught an error.
C3_PointerEventsRestored ==
    (LocateDone /\ (Started("pointer-events-manipulation") \/ Started("spatial-analysis")))
        => pointerEvents = peBefore

\* C3 witness: the probing hid an element whose inline value was "auto" and then
\* failed on the inline style of a later stack element.
C3_Witness ==
    /\ LocateDone
    /\ Started("pointer-events-manipulation")
    /\ Result.error[1] = ErrorMarker
    /\ \E i, j \in 1..(Len(elements) - 1) :
        /\ i < j
        /\ peBefore[elements[i]] = "auto"
        /\ InlineStyleThrows(elements[j])

\* C4: an empty hit-test makes the call fail with "No elements found at
\* coordinates" and elementsFound = 0, and no strategy is started.
C4_EmptyStackFails ==
    (LocateDone /\ ~HitTestThrows /\ elements = <<>>) =>
        /\ Result = Failure(NoElementsReason,
                            [coordinates |-> query, elementsFound |-> 0,
                             strategy |-> "", elementsChecked |-> <<>>])
        /\ ran = <<>>

\* C4 witness: a query outside the viewport has been answered.
C4_Witness ==
    /\ LocateDone
    /\ query = QueryOutside
    /\ doc.fault.kind = "none"
    /\ Result.error = <<NoElementsReason>>

\* C5: two calls in succession with the same query against the same document
\* return identical results, diagnostics included.
C5_Idempotent == Len(returned) = 2 => returned[1] = returned[2]

\* C5 witness: the second call of the pointer-events variant has run the
\* occlusion probing over a stack that holds an element with an inline value.
C5_Witness ==
    /\ Len(returned) = 2
    /\ variant = "pointer-events"
    /\ Started("pointer-events-manipulation")
    /\ \E i \in 1..(Len(elements) - 1) : peBefore[elements[i]] = "auto"

\* a fault that no per-element guard catches is raised in the call: by the
\* hit-test, by the direct check's own style read of a stack element it reaches,
\* by a geometry read, by the inline style of a hidden element or by the re-query
EscapedFault ==
    \/ HitTestThrows
    \/ \E i \in 1..Len(elements) :
        /\ StyleThrows(elements[i])
        /\ \A j \in 1..(i - 1) : Resolve(elements[j]).url = Null
    \/ (Started("spatial-analysis") \/ Started("viewport-bounds-check"))
        /\ \E e \in Elems : RectThrows(e)
    \/ Started("pointer-events-manipulation") /\ Len(elements) > 1
        /\ (ProbeThrows \/ \E i \in 1..(Len(elements) - 1) : InlineStyleThrows(elements[i]))

\* C6 (as stated): every accessor fault met during the search, a style fault
\* caught by a per-element guard included, makes the call return success = false
\* with the marker followed by the error's description.
C6_EveryFaultFailsTheCall ==
    (LocateDone /\ (EscapedFault \/ console # <<>>)) =>
        /\ ~Result.success
        /\ Result.error = <<ErrorMarker, doc.fault.value.message>>

\* C6 (amended): no fault leaves locate. A fault that no per-element guard
\* catches is returned as success = false with the marker followed by the
\* error's message ("Unknown error" when the thrown value is not an Error), and
\* only such a fault is; a style fault caught by a per-element guard does not by
\* itself fail the call.
C6_NoFaultPropagates ==
    LocateDone =>
        /\ Result.status = "returned"
        /\ EscapedFault <=> Result.error[1] = ErrorMarker
        /\ Result.error[1] = ErrorMarker =>
            /\ ~Result.success
            /\ Result.url = Null
            /\ Result.error = <<ErrorMarker,
                                IF doc.fault.value.isError
                                THEN doc.fault.value.message ELSE "Unknown error">>

\* C6 witness: a geometry read failed in a later strategy and was returned as a
\* failure result.
C6_Witness ==
    /\ LocateDone
    /\ doc.fault.kind = "rect"
    /\ Len(ran) > 1
    /\ Result.error = <<ErrorMarker, "Mock error for testing">>

\* C7 (as stated): the failing style read of one element is treated as no match
\* for that element and never aborts the search.
C7_StyleFaultNeverAborts ==
    (LocateDone /\ doc.fault.kind = "style" /\ Cardinality(doc.fault.who) = 1)
        => Result.error[1] # ErrorMarker

\* C8: an IMG with a non-empty src resolves to that src whatever its background
\* image is; every other element resolves to the URL extracted from its resolved
\* background image, and to no match when there is none.
C8_PrefersDirectSource ==
    elOut # ElPending =>
        IF elIn.tagName = "IMG" /\ elIn.src # <<>>
        THEN elOut.url = elIn.src
        ELSE elOut.url = (IF elIn.styleThrows THEN Null
                          ELSE extractBackgroundImageUrl(elIn.backgroundImage))

\* C8 witness: an IMG that has both a src and a background image was resolved.
C8_Witness ==
    /\ elOut # ElPending
    /\ elIn.tagName = "IMG"
    /\ elIn.src = <<"s">>
    /\ ~elIn.styleThrows
    /\ extractBackgroundImageUrl(elIn.backgroundImage) = <<"b">>
    /\ elOut.url = <<"s">>

\* C9: the strategies run in the fixed order of the variant and the call returns
\* at the first success: the strategies started are a prefix of the order, a
\* success names the last strategy started, and an exhausted search has run
\* them all and names the last one of the order.
C9_FixedStrategyOrder ==
    LET order == StrategyOrder(variant)
    IN  /\ IsPrefix(ran, order)
        /\ pc \notin {"idle", "done"} => pc = order[Len(ran) + 1]
        /\ LocateDone =>
            /\ Result.success =>
                /\ ran # <<>>
                /\ Result.debugInfo.strategy = ran[Len(ran)]
            /\ (~Result.success /\ Result.error[1] # ErrorMarker /\ elements # <<>>) =>
                /\ ran = order
                /\ Result.debugInfo.strategy = order[Len(order)]

\* C9 witness: the last strategy of the canonical variant found the image after
\* the three before it had run.
C9_Witness ==
    /\ LocateDone
    /\ variant = "non-mutating"
    /\ Result.success
    /\ Result.debugInfo.strategy = "viewport-bounds-check"
    /\ ran = StrategyOrder("non-mutating")

PlainDocument ==
    \A e \in Elems : doc.src[e] = <<>> /\ doc.backgroundImage[e] = NoneStr

NoMatch == ~Result.success /\ Result.error[1] # ErrorMarker

\* C10 (as stated): with a non-empty candidate stack and no match, the reason
\* of the failure is "No image found at coordinates".
C10_ReasonIsNoImageFound ==
    (LocateDone /\ elements # <<>> /\ NoMatch) => Result.error = <<NoImageReason>>

\* C10 (amended): with a non-empty candidate stack and no match (as for a
\* document without any image), the failure carries the diagnostic record of the
\* last strategy and the reason "No image found at coordinates", which in the
\* background-only detector reads "No background image found at coordinates".
C10_ExhaustionReason ==
    (LocateDone /\ elements # <<>>) =>
        /\ (PlainDocument /\ doc.fault.kind = "none") => NoMatch
        /\ NoMatch =>
            /\ Result.error = <<IF variant = "background-only"
                                THEN NoBackgroundImageReason ELSE NoImageReason>>
            /\ Result.debugInfo = debugInfo
            /\ debugInfo.strategy = ran[Len(ran)]
            /\ debugInfo.strategy = StrategyOrder(variant)[Len(StrategyOrder(variant))]
            /\ debugInfo.elementsFound = Len(elements)

\* C10 witness: the canonical variant has exhausted its strategies on a document
\* without any image.
C10_Witness ==
    /\ LocateDone
    /\ variant = "non-mutating"
    /\ PlainDocument
    /\ doc.fault.kind = "none"
    /\ Result.error = <<NoImageReason>>
    /\ elements # <<>>

\* an element that carries no image, and one that declares a url(...) background
PlainElement(e) == doc.src[e] = <<>> /\ doc.backgroundImage[e] = NoneStr
BackgroundElement(e) ==
    /\ doc.tagName[e] # "IMG"
    /\ doc.backgroundImage[e] \in {UrlBare(BgUrlOf(e)), UrlSingle(BgUrlOf(e)),
                                   UrlDouble(BgUrlOf(e))}
ImgElement(e) == doc.tagName[e] = "IMG" /\ doc.src[e] # <<>>

\* the stack of scenario 1: an overlay without image right above a container
\* with a background image
OverlayOverContainer ==
    /\ Len(elements) >= 2
    /\ elements[1] \in Content /\ PlainElement(elements[1])
    /\ elements[2] \in Content /\ BackgroundElement(elements[2])

C12_ImageBehindOverlays ==
    LocateDone =>
        \A k \in 2..Len(elements) :
            (/\ BackgroundElement(elements[k])
             /\ \A j \in 1..(k - 1) : PlainElement(elements[j])) =>
                /\ Result.success
                /\ Result.url = BgUrlOf(elements[k])
                /\ Result.debugInfo.coordinates = query
                /\ Result.debugInfo.elementsFound > 0

\* C13 (as stated): when an IMG with a non-empty src is in the candidate stack
\* and no element above it carries an image, locate returns success with that
\* src from the direct check.
C13_ImgFoundByDirectCheck ==
    LocateDone =>
        \A k \in 1..Len(elements) :
            (/\ ImgElement(elements[k])
             /\ \A j \in 1..(k - 1) : PlainElement(elements[j])) =>
                /\ Result.success
                /\ Result.url = doc.src[elements[k]]
                /\ Result.debugInfo.strategy = "direct-check"

\* C14 (as stated): when the clicked leaf has no image of its own and an
\* ancestor of it carries a background image, locate returns success with the
\* ancestor's URL and the match comes from the ancestor traversal.
C14_AncestorFoundByTraversal ==
    (LocateDone /\ elements # <<>> /\ doc.fault.kind = "none") =>
        \A a \in Content :
            (/\ elements[1] \in Content
             /\ PlainElement(elements[1])
             /\ doc.parent[elements[1]] = a
             /\ BackgroundElement(a)) =>
                /\ Result.success
                /\ Result.url = BgUrlOf(a)
                /\ Result.debugInfo.strategy = "parent-traversal"

\* C15: the 'copyToClipboard' request is sent for a resolved URL if and only if
\* the primary write was rejected or the clipboard API is unavailable, at most
\* once per URL and never after a primary write that succeeded; the primary
\* write is attempted first whenever the API is available, and a delivery is
\* started for the success results only.
C15_FallbackIffPrimaryFailed ==
    /\ \A i \in 1..Len(deliveries) :
        LET d == deliveries[i]
        IN  /\ d.requests <= 1
            /\ d.requests = 1 <=> d.primary \in {"rejected", "unavailable"}
            /\ d.fallback # "none" <=> d.requests = 1
            /\ d.primary = "unavailable" <=> ~clipboardApi
    /\ LET found == SelectSeq(returned, LAMBDA r : r.success)
           done == IF Locating /\ pc = "done" /\ returned[Len(returned)].success
                   THEN Len(found) - 1 ELSE Len(found)
       IN  /\ Len(deliveries) = done
           /\ \A i \in 1..Len(deliveries) : deliveries[i].url = found[i].url

\* C15 witness: one URL was written by the primary sink without any request to
\* the background script, another one was requested from it after the primary
\* write had been rejected.
C15_Witness ==
    \E i, j \in 1..Len(deliveries) :
        /\ deliveries[i].primary = "fulfilled" /\ deliveries[i].requests = 0
        /\ deliveries[j].primary = "rejected" /\ deliveries[j].requests = 1

\* the URL the query at the last right-click resolves to
Expected ==
    findBackgroundImageAtCoordinates(pointerEvents, lastRightClickCoordinates.x,
                                     lastRightClickCoordinates.y).result

Written(d) == d.primary = "fulfilled" \/ d.fallback = "written"
Refused(d) == d.primary \in {"rejected", "unavailable"} /\ d.fallback = "failed"

\* messages are delivered and the listener of the content script returns
Delivered == []<>(tabMessages = 0) /\ []<>(~Locating)

C17_LatestRightClick ==
    LET located == SelectSeq(handled, LAMBDA h : h.located)
    IN  /\ \A i \in 1..Len(handled) :
            LET h == handled[i]
            IN  IF h.clicksSeen = 0
                THEN ~h.located /\ h.error = <<NoCoordinatesError>>
                ELSE h.located /\ h.coordinates = Coordinates(clicks[h.clicksSeen])
        /\ \A k \in 1..Len(returned) :
            returned[k].debugInfo.coordinates = clicks[located[k].clicksSeen]
        /\ Locating => query = clicks[handled[Len(handled)].clicksSeen]

\* C17 witness: a message was handled after a second right-click at another
\* point than the first.
C17_Witness ==
    \E i \in 1..Len(handled) :
        /\ handled[i].clicksSeen = 2
        /\ clicks[1] # clicks[2]
        /\ handled[i].state = "responded"
        /\ handled[i].located

\* the same search without the diagnostic record: the direct check resolves the
\* elements of the stack and reads nothing for debugInfo.elementsChecked
RECURSIVE RunWithoutDiagnostics(_, _, _, _, _)
RunWithoutDiagnostics(strategy, els, x, y, pe) ==
    LET o == IF strategy = "direct-check"
             THEN FirstImage(els, 1, <<>>, <<>>, pe)
             ELSE StrategyOutcome(strategy, els, x, y, <<>>, pe)
        next == NextStrategy(variant, strategy)
    IN  IF o.kind = "hit" THEN [success |-> TRUE, url |-> o.url, error |-> Null]
        ELSE IF o.kind = "throw"
        THEN [success |-> FALSE, url |-> Null,
              error |-> <<ErrorMarker, IF o.value.isError THEN o.value.message
                                       ELSE "Unknown error">>]
        ELSE IF next = "exhausted"
        THEN [success |-> FALSE, url |-> Null,
              error |-> <<IF variant = "background-only"
                          THEN NoBackgroundImageReason ELSE NoImageReason>>]
        ELSE RunWithoutDiagnostics(next, els, x, y, o.pe)

\* C18 (as stated): the success flag, the URL and the failure reason that locate
\* returns are those of the same search run without collecting diagnostics.
C18_DiagnosticsNeverDecide ==
    (LocateDone /\ elements # <<>>) =>
        LET plain == RunWithoutDiagnostics("direct-check", elements, query.x,
                                           query.y, peBefore)
        IN  /\ Result.success = plain.success
            /\ Result.url = plain.url
            /\ Result.error = plain.error

\* every invocation has returned
AllReturned == \A p \in Procs : calls[p].pc = "done"

\* what the call returns when it runs alone against the document
Alone == findBackgroundImageAtCoordinates(peBefore, query.x, query.y).result

\* C19: when the invocations are serialized, the inline pointer-events values
\* after them are the initial ones and each returns what it returns alone;
\* interleaved, the mutating variants have a run that ends otherwise (the
\* witness).
C19_SerializedIsSafe ==
    ~overlapped =>
        /\ \A p \in Procs : calls[p].pc = "done" => calls[p].result = Alone
        /\ (\A p \in Procs : ~Running(calls[p])) => pointerEvents = peBefore

\* C19 witness: two interleaved invocations of the pointer-events variant have
\* returned, one of them saw a stack without an element the other had hidden,
\* and an element is left with pointer-events none.
C19_Witness ==
    /\ AllReturned
    /\ overlapped
    /\ variant = "pointer-events"
    /\ pointerEvents # peBefore
    /\ \E e \in Elems : pointerEvents[e] = "none"
    /\ \E p \in Procs :
        calls[p].result.debugInfo.elementsFound < Alone.debugInfo.elementsFound

\* C20: the non-mutating variant changes no inline style at any step, and each
\* of its invocations, interleaved or not, returns what it returns alone.
C20_NonMutatingIsReentrant ==
    variant = "non-mutating" =>
        /\ pointerEvents = peBefore
        /\ \A p \in Procs : calls[p].pc = "done" => calls[p].result = Alone

\* C20 witness: two interleaved invocations of the non-mutating variant have
\* returned after running all four strategies.
C20_Witness ==
    /\ AllReturned
    /\ overlapped
    /\ variant = "non-mutating"
    /\ \A p \in Procs : calls[p].result.debugInfo.strategy = "viewport-bounds-check"

\* the proper ancestors of e that lie below body (all of them when e is not
\* inside body)
TraversalReach(e) ==
    { a \in Elems : /\ IsAncestor(a, e)
                    /\ a # Body
                    /\ (IsAncestor(Body, e) => IsAncestor(Body, a)) }

Bearing(e) == Resolve(e).url # Null

JustRan(strategy) == ran # <<>> /\ ran[Len(ran)] = strategy

NearQuery(e) ==
    /\ doc.rect[e].left <= query.x + 10
    /\ doc.rect[e].right >= query.x - 10
    /\ doc.rect[e].top <= query.y + 10
    /\ doc.rect[e].bottom >= query.y - 10

\* C22: the neighbourhood scan runs after the direct check, the bounds check
\* and the ancestor traversal have all failed; it returns the image of the
\* first element, in document order, whose rectangle meets the square around
\* the query point and that resolves to an image, and fails with 'No image
\* found at coordinates' when there is none: an element away from the square
\* never produces the result.
C22_ScanFindsFirstNearby ==
    JustRan("viewport-bounds-check") =>
        LET nearby == { e \in Elems : NearQuery(e) /\ Bearing(e) }
        IN  /\ ran = <<"direct-check", "spatial-analysis", "parent-traversal",
                       "viewport-bounds-check">>
            /\ LocateDone
            /\ Result.debugInfo.strategy = "viewport-bounds-check"
            /\ IF nearby = {}
               THEN ~Result.success /\ Result.error = <<NoImageReason>>
               ELSE Result.success /\ Result.url = Resolve(Min(nearby)).url

\* the scan passed over an image-bearing element away from the square and
\* returned the image of a later element
C22_Witness ==
    /\ JustRan("viewport-bounds-check")
    /\ LocateDone
    /\ Result.success
    /\ \E e, f \in Elems : /\ e < f
                           /\ Bearing(e) /\ ~NearQuery(e)
                           /\ NearQuery(f) /\ Result.url = Resolve(f).url

\* the first image-bearing descendant of a stack element: stack elements in
\* hit-test order, the descendants of each in document order (0: none)
RECURSIVE FirstBearing(_)
FirstBearing(seq) ==
    IF seq = <<>> THEN 0
    ELSE IF Bearing(Head(seq)) THEN Head(seq)
    ELSE FirstBearing(Tail(seq))

\* C23 (as stated): in the variant with the descendant check, when no element
\* of the candidate stack carries an image but a descendant of a stack element
\* does, locate returns success with the image of the first such descendant
\* and strategy 'child-element-check'; when a stack element carries an image
\* the result is an image of the stack and not of the descendant check.
C23_DescendantFoundByChildCheck ==
    (/\ LocateDone
     /\ variant = "pointer-events"
     /\ elements # <<>>
     /\ doc.fault.kind \in {"none", "style"}) =>
        LET first == FirstBearing(AllDescendants(elements))
        IN  IF \A i \in 1..Len(elements) : ~Bearing(elements[i])
            THEN first # 0 =>
                    /\ Result.success
                    /\ Result.url = Resolve(first).url
                    /\ Result.debugInfo.strategy = "child-element-check"
            ELSE /\ Result.success
                 /\ \E i \in 1..Len(elements) : Result.url = Resolve(elements[i]).url
                 /\ Result.debugInfo.strategy # "child-element-check"

\* the diagnostic record of element e: kind, class, raw background value and
\* raw stacking value
Described(e) ==
    [tagName |-> doc.tagName[e], className |-> doc.className[e],
     backgroundImage |-> doc.backgroundImage[e], zIndex |-> doc.zIndex[e]]

\* C24: debugInfo.elementsChecked lists the elements the direct check
\* inspected, in hit-test order: after a direct-check success on the k-th stack
\* element it has k entries, the last describing the matching element; once
\* the direct check has completed without a match it describes the whole
\* stack (elementsFound entries) and no later strategy changes it.
C24_CheckedListsDirectCheck ==
    /\ (LocateDone /\ Result.success /\ Result.debugInfo.strategy = "direct-check") =>
          LET checked == Result.debugInfo.elementsChecked
              k == Len(checked)
          IN  /\ k >= 1 /\ k <= Len(elements)
              /\ checked = [j \in 1..k |-> Described(elements[j])]
              /\ Result.url = Resolve(elements[k]).url
              /\ \A j \in 1..(k - 1) : ~Bearing(elements[j])
    /\ Len(ran) >= 2 =>
          /\ Len(debugInfo.elementsChecked) = debugInfo.elementsFound
          /\ debugInfo.elementsChecked =
                [j \in 1..Len(elements) |-> Described(elements[j])]
          /\ LocateDone => Result.debugInfo.elementsChecked = debugInfo.elementsChecked

\* a direct-check success on the second element of a longer stack
C24_Witness ==
    /\ LocateDone
    /\ Result.success
    /\ Result.debugInfo.strategy = "direct-check"
    /\ Len(Result.debugInfo.elementsChecked) = 2
    /\ Result.debugInfo.elementsFound > 2

\* the messages handled so far for which locate was invoked
Located == { i \in 1..Len(handled) : handled[i].located }

\* C25: a 'getBackgroundImageUrl' message handled before any contextmenu event
\* was recorded is answered {found: false, error: 'No right-click coordinates
\* available'} without invoking locate, and as long as no contextmenu event was
\* recorded there is no call of locate, no clipboard write and no
\* 'copyToClipboard' request.
C25_NoCoordinatesNoSearch ==
    /\ \A i \in 1..Len(handled) :
          handled[i].clicksSeen = 0 =>
              /\ handled[i].coordinates.isNull
              /\ handled[i].state = "responded"
              /\ ~handled[i].found
              /\ handled[i].error = <<"No right-click coordinates available">>
              /\ ~handled[i].located
    /\ Len(returned) <= Cardinality(Located)
    /\ clicks = <<>> =>
          /\ pc = "idle" /\ returned = <<>>
          /\ deliveries = <<>>
          /\ clipboard = Null

\* a message was answered before the first right-click and a later one led to
\* a search
C25_Witness ==
    /\ Len(handled) = 2
    /\ handled[1].clicksSeen = 0
    /\ handled[2].located
    /\ handled[2].state = "responded"

\* the result of the call of locate made for the i-th handled message
ResultFor(i) == returned[Cardinality({ j \in 1..i : handled[j].located })]

\* C26: every handled 'getBackgroundImageUrl' message is answered exactly once
\* (not at all while its listener is still inside locate); the answer is
\* {found: true, url} exactly when locate returned success with a non-empty
\* URL and {found: false, error} otherwise; and the found: true answer is
\* issued in the step that starts the clipboard write or the fallback request,
\* before either has an outcome.
C26_OneResponsePerMessage ==
    /\ [](\A i \in 1..Len(handled) :
            LET h == handled[i]
            IN  /\ h.responses = IF h.state = "responded" THEN 1 ELSE 0
                /\ (h.located /\ h.state = "responded") =>
                      LET r == ResultFor(i)
                      IN  IF r.success /\ r.url # Null /\ r.url # <<>>
                          THEN h.found /\ h.url = r.url /\ h.error = Null
                          ELSE ~h.found /\ h.url = Null /\ h.error = r.error)
    /\ [][(/\ handled # <<>>
            /\ Len(handled') = Len(handled)
            /\ handled[Len(handled)].responses = 0
            /\ handled'[Len(handled)].found) =>
               /\ Len(deliveries') = Len(deliveries) + 1
               /\ deliveries'[Len(deliveries')].url = handled'[Len(handled)].url
               /\ deliveries'[Len(deliveries')].primary \in {"pending", "unavailable"}
               /\ deliveries'[Len(deliveries')].fallback \in {"none", "sent"}
               /\ clipboard' = clipboard]_vars

\* the answer found: true was given and the clipboard write it started has no
\* outcome yet
C26_Witness ==
    /\ handled # <<>>
    /\ handled[Len(handled)].responses = 1
    /\ handled[Len(handled)].found
    /\ deliveries # <<>>
    /\ deliveries[Len(deliveries)].primary = "pending"
    /\ clipboard = Null

C28_SortedStrategiesNeverSucceed ==
    /\ (LocateDone /\ Result.success) =>
          Result.debugInfo.strategy \notin {"spatial-analysis", "z-index-sorting"}
    /\ (Started("spatial-analysis") \/ Started("z-index-sorting")) =>
          \A i \in 1..Len(elements) : ~Bearing(elements[i])

\* the z-index sort has run over a stack in which one element is raised and
\* the call went on to its next strategy
C28_Witness ==
    /\ JustRan("z-index-sorting")
    /\ pc = "child-element-check"
    /\ Len(elements) >= 4
    /\ \E i \in 1..Len(elements) : ~doc.zIndex[elements[i]].auto

\* element e carries url: it is its IMG src or the URL inside its background
\* value
Carries(e, url) ==
    \/ doc.tagName[e] = "IMG" /\ doc.src[e] # <<>> /\ doc.src[e] = url
    \/ doc.backgroundImage[e] \in {UrlBare(url), UrlSingle(url), UrlDouble(url)}

InStack(e) == \E i \in 1..Len(elements) : elements[i] = e

\* C29 (as stated): every URL returned with success is carried by an element
\* that is in the candidate stack, a proper ancestor of the last stack element
\* or an element whose rectangle meets the 10-pixel square around the query
\* point.
C29_UrlComesFromNearby ==
    (LocateDone /\ Result.success) =>
        \E e \in Elems :
            /\ Carries(e, Result.url)
            /\ \/ InStack(e)
               \/ IsAncestor(e, elements[Len(elements)])
               \/ NearQuery(e)

\* C29 (amended): every URL returned with success is carried by an element of
\* the document: one of the candidate stack (direct check), a proper ancestor
\* of the last stack element (ancestor traversal), an element whose rectangle
\* meets the 10-pixel square around the query point (neighbourhood scan) or,
\* in the content script's variant with the descendant check, a descendant of
\* a stack element, wherever it lies.
C29_UrlComesFromTheDocument ==
    (LocateDone /\ Result.success) =>
        /\ Result.debugInfo.strategy \in
              {"direct-check", "parent-traversal", "viewport-bounds-check",
               "child-element-check"}
        /\ \E e \in Elems :
              /\ Carries(e, Result.url)
              /\ CASE Result.debugInfo.strategy = "direct-check" -> InStack(e)
                   [] Result.debugInfo.strategy = "parent-traversal" ->
                        IsAncestor(e, elements[Len(elements)])
                   [] Result.debugInfo.strategy = "viewport-bounds-check" ->
                        NearQuery(e)
                   [] Result.debugInfo.strategy = "child-element-check" ->
                        /\ variant = "pointer-events"
                        /\ \E i \in 1..Len(elements) : IsAncestor(elements[i], e)
                   [] OTHER -> FALSE

\* the descendant check returned the URL of an element that is neither in the
\* stack nor near the query point
C29_Witness ==
    /\ LocateDone
    /\ Result.success
    /\ Result.debugInfo.strategy = "child-element-check"
    /\ \A e \in Elems : Carries(e, Result.url) => ~InStack(e) /\ ~NearQuery(e)

\* C30: every result is well formed. Its debugInfo has the coordinates of the
\* query and elementsFound equal to the size of the candidate stack (0 when the
\* hit-test faulted); a success carries a non-empty url, no error and
\* elementsFound > 0; a failure carries a non-empty error and no url.
C30_ResultIsWellFormed ==
    LocateDone =>
        /\ Result.debugInfo.coordinates = query
        /\ Result.debugInfo.elementsFound =
              IF HitTestThrows THEN 0
              ELSE Len(elementsFromPoint(peBefore, query.x, query.y))
        /\ Result.debugInfo.elementsFound = Len(elements)
        /\ IF Result.success
           THEN /\ Result.url # Null /\ Result.url # <<>>
                /\ Result.error = Null
                /\ Result.debugInfo.elementsFound > 0
           ELSE /\ Result.url = Null
                /\ Result.error # Null /\ Result.error # <<>>
                /\ Result.error[1] # ""

\* a failure after all strategies, over a stack of several elements
C30_Witness ==
    /\ LocateDone
    /\ ~Result.success
    /\ Result.error = <<NoImageReason>>
    /\ Result.debugInfo.elementsFound >= 3

============================================================================
